---- MODULE Spec2Model ----
(***************************************************************************)
(* A model of the VLESS-over-WebSocket relay of src/src/index.ts: the      *)
(* header parser (processVlessHeader), the secret comparison, and the      *)
(* per-message handler that handleVless registers on the server side of    *)
(* the WebSocket pair, together with the streams it wires to the outbound  *)
(* socket.                                                                 *)
(*                                                                         *)
(* Bytes are the naturals 0..255.  A frame (one binary WebSocket message)  *)
(* is a sequence of bytes; offsets are zero-based as in the source, so the *)
(* byte at offset o of frame m is m[o + 1].  Text (a host name, the        *)
(* configured UUID) is a sequence of character codes.                      *)
(***************************************************************************)
EXTENDS Naturals, Sequences, FiniteSets

----------------------------------------------------------------------------
(* Bounds of the model.                                                    *)

\* inbound messages delivered on the one upgraded connection
MaxFrames == 2

\* the length of the arrays and texts the utility functions are called with,
\* beside the full-length ones
MaxLen == 2

\* events produced by the remote end of outbound sockets (data, EOF, error)
MaxRemoteEvents == 2

----------------------------------------------------------------------------
(* Program constants.                                                      *)

\* new Uint8Array(message, offset, 16): the width of the secret field
SecretLen == 16

\* server.close(1011, e.message)
ErrorCloseCode == 1011

\* new Response('Expected a WebSocket Upgrade request', { status: 426 })
UpgradeRequired == 426

\* new Response(null, { status: 101, webSocket: client })
SwitchingProtocols == 101

\* the code point TextDecoder substitutes for a byte that is not valid UTF-8
ReplacementChar == 65533

----------------------------------------------------------------------------
(* Text helpers: character codes.                                          *)

IsDigit(c) == c >= 48 /\ c <= 57
IsLowerHex(c) == c >= 97 /\ c <= 102
IsUpperHex(c) == c >= 65 /\ c <= 70
IsHexChar(c) == IsDigit(c) \/ IsLowerHex(c) \/ IsUpperHex(c)

HexVal(c) ==
    IF IsDigit(c) THEN c - 48
    ELSE IF IsLowerHex(c) THEN c - 87
    ELSE c - 55

\* StrWhiteSpaceChar as far as the model's alphabet goes: space, tab, LF, CR
IsSpace(c) == c \in {32, 9, 10, 13}

\* a parse that gives NaN, stored as 0, unless both characters are hex digits
ParseHexPairStrict(s) ==
    IF Len(s) = 2 /\ IsHexChar(s[1]) /\ IsHexChar(s[2])
    THEN 16 * HexVal(s[1]) + HexVal(s[2])
    ELSE 0

\* parseInt(s, 16) for a string of at most two characters, stored in a
\* Uint8Array element (NaN is stored as 0): leading white space is skipped,
\* a '+' sign is accepted ('-' never occurs: the dashes were removed), a
\* "0x" prefix leaves no digits, and the longest prefix of hex digits is
\* the value.
ParseHexPair(s) ==
    LET t == IF Len(s) > 0 /\ IsSpace(s[1]) THEN Tail(s) ELSE s
        u == IF Len(t) > 0 /\ IsSpace(t[1]) THEN Tail(t) ELSE t
        v == IF Len(u) > 0 /\ u[1] = 43 THEN Tail(u) ELSE u
    IN  IF Len(v) = 0 \/ ~IsHexChar(v[1]) THEN 0
        ELSE IF Len(v) = 1 \/ ~IsHexChar(v[2]) THEN HexVal(v[1])
        ELSE 16 * HexVal(v[1]) + HexVal(v[2])

\* uuid.replace(/-/g, '')
RECURSIVE StripDashes(_)
StripDashes(s) ==
    IF s = <<>> THEN <<>>
    ELSE IF Head(s) = 45 THEN StripDashes(Tail(s))
    ELSE <<Head(s)>> \o StripDashes(Tail(s))

\* String.prototype.substring(a, b) for 0 <= a <= b
Substring(s, a, b) ==
    LET lo == IF a > Len(s) THEN Len(s) ELSE a
        hi == IF b > Len(s) THEN Len(s) ELSE b
    IN  SubSeq(s, lo + 1, hi)

uuidToBytes(uuid) ==
    LET hex == StripDashes(uuid)
    IN  [i \in 1..SecretLen |->
            ParseHexPair(Substring(hex, (i - 1) * 2, (i - 1) * 2 + 2))]

\* compareArrays without its length check: the loop runs over a only
compareArraysPrefix(a, b) ==
    \A i \in 1..Len(a) : i <= Len(b) => a[i] = b[i]

\* compareArrays with its loop ending one index early
compareArraysShortLoop(a, b) ==
    IF Len(a) # Len(b) THEN FALSE
    ELSE \A i \in 1..(Len(a) - 1) : a[i] = b[i]

compareArrays(a, b) ==
    IF Len(a) # Len(b) THEN FALSE
    ELSE \A i \in 1..Len(a) : a[i] = b[i]

\* Number.prototype.toString() of a byte, as character codes
DecimalText(n) ==
    IF n < 10 THEN <<48 + n>>
    ELSE IF n < 100 THEN <<48 + (n \div 10), 48 + (n % 10)>>
    ELSE <<48 + (n \div 100), 48 + ((n \div 10) % 10), 48 + (n % 10)>>

\* Array.from(bytes).join('.')
RECURSIVE JoinDots(_)
JoinDots(bytes) ==
    IF bytes = <<>> THEN <<>>
    ELSE IF Len(bytes) = 1 THEN DecimalText(bytes[1])
    ELSE DecimalText(bytes[1]) \o <<46>> \o JoinDots(Tail(bytes))

HexChar(d) == IF d < 10 THEN 48 + d ELSE 87 + d

\* byte.toString(16).padStart(2, '0')
HexByteText(b) == <<HexChar(b \div 16), HexChar(b % 16)>>

\* the reduce without padStart: byte.toString(16) alone
RECURSIVE Ipv6TextNoPad(_, _)
Ipv6TextNoPad(bytes, i) ==
    IF i >= Len(bytes) THEN <<>>
    ELSE (IF i % 2 = 0 /\ i # 0 THEN <<58>> ELSE <<>>)
         \o (IF bytes[i + 1] < 16 THEN <<HexChar(bytes[i + 1])>>
             ELSE HexByteText(bytes[i + 1]))
         \o Ipv6TextNoPad(bytes, i + 1)

\* ipv6Bytes.reduce(...): a ':' before every even index but the first
RECURSIVE Ipv6Text(_, _)
Ipv6Text(bytes, i) ==
    IF i >= Len(bytes) THEN <<>>
    ELSE (IF i % 2 = 0 /\ i # 0 THEN <<58>> ELSE <<>>)
         \o HexByteText(bytes[i + 1]) \o Ipv6Text(bytes, i + 1)

\* new TextDecoder().decode(bytes) for bytes that are ASCII or stand alone:
\* an ASCII byte is its own code point, any other lone byte is replaced
Utf8Decode(bytes) ==
    [i \in 1..Len(bytes) |->
        IF bytes[i] < 128 THEN bytes[i] ELSE ReplacementChar]

----------------------------------------------------------------------------
(* The header parser: processVlessHeader up to its first await.            *)

\* DataView.getUint8 / getUint16 and new Uint8Array(message, offset, n)
\* raise a RangeError unless the bytes they cover lie inside the buffer
InRange(message, offset, n) == offset + n <= Len(message)
getUint8(message, offset) == message[offset + 1]
getUint16(message, offset) == message[offset + 1] * 256 + message[offset + 2]
Uint8Slice(message, offset, n) == SubSeq(message, offset + 1, offset + n)

\* the outcome of a parse: err = "" when the header is accepted
Thrown(kind, text, arg) ==
    [err |-> kind, text |-> text, arg |-> arg,
     host |-> <<>>, port |-> 0, offset |-> 0]
RangeError == Thrown("TruncatedHeader", "RangeError: Offset is outside the bounds of the DataView", 0)
Parsed(host, port, offset) ==
    [err |-> "", text |-> "", arg |-> 0,
     host |-> host, port |-> port, offset |-> offset]

\* the override left out: the decoded host is passed through
ResolveHostIgnored(host, env) == host

\* lines 161-164: PROXY_HOST replaces the decoded host when it is set
ResolveHost(host, env) ==
    IF env.PROXY_HOST # <<>> /\ host # env.PROXY_HOST THEN env.PROXY_HOST
    ELSE host

\* the switch with a lenient domain case: the host is whatever bytes the
\* frame still holds, up to the announced length
DecodeAddressClamped(message, offset, addressType, port, env) ==
    CASE addressType = 1 ->
            IF ~InRange(message, offset, 4) THEN RangeError
            ELSE Parsed(ResolveHost(JoinDots(Uint8Slice(message, offset, 4)), env),
                        port, offset + 4)
      [] addressType = 2 ->
            IF ~InRange(message, offset, 1) THEN RangeError
            ELSE LET domainLength == getUint8(message, offset)
                     have == IF InRange(message, offset + 1, domainLength)
                             THEN domainLength
                             ELSE Len(message) - (offset + 1)
                 IN  Parsed(ResolveHost(Utf8Decode(
                                Uint8Slice(message, offset + 1, have)), env),
                            port, offset + 1 + have)
      [] addressType = 3 ->
            IF ~InRange(message, offset, 16) THEN RangeError
            ELSE Parsed(ResolveHost(Ipv6Text(Uint8Slice(message, offset, 16), 0), env),
                        port, offset + 16)
      [] OTHER -> Thrown("InvalidAddressKind", "Invalid address type: ", addressType)

\* lines 136-159: the switch on the address type, entered with offset just
\* after the address-type byte
DecodeAddress(message, offset, addressType, port, env) ==
    CASE addressType = 1 ->
            IF ~InRange(message, offset, 4) THEN RangeError
            ELSE Parsed(ResolveHost(JoinDots(Uint8Slice(message, offset, 4)), env),
                        port, offset + 4)
      [] addressType = 2 ->
            IF ~InRange(message, offset, 1) THEN RangeError
            ELSE LET domainLength == getUint8(message, offset)
                 IN  IF ~InRange(message, offset + 1, domainLength) THEN RangeError
                     ELSE Parsed(ResolveHost(Utf8Decode(
                                     Uint8Slice(message, offset + 1, domainLength)), env),
                                 port, offset + 1 + domainLength)
      [] addressType = 3 ->
            IF ~InRange(message, offset, 16) THEN RangeError
            ELSE Parsed(ResolveHost(Ipv6Text(Uint8Slice(message, offset, 16), 0), env),
                        port, offset + 16)
      [] OTHER -> Thrown("InvalidAddressKind", "Invalid address type: ", addressType)

\* the address type looked at before the command is
ParseRequestKindFirst(message, env) ==
    IF ~InRange(message, 1 + SecretLen, 1) THEN RangeError
    ELSE LET addonsLength == getUint8(message, 1 + SecretLen)
             cmdOffset == 1 + SecretLen + 1 + addonsLength
         IN  IF ~InRange(message, cmdOffset, 1) THEN RangeError
             ELSE IF ~InRange(message, cmdOffset + 1, 2) THEN RangeError
             ELSE IF ~InRange(message, cmdOffset + 3, 1) THEN RangeError
             ELSE IF getUint8(message, cmdOffset + 3) \notin {1, 2, 3}
                  THEN Thrown("InvalidAddressKind", "Invalid address type: ",
                              getUint8(message, cmdOffset + 3))
             ELSE IF getUint8(message, cmdOffset) # 1
                  THEN Thrown("UnsupportedCommand", "Unsupported command: ",
                              getUint8(message, cmdOffset))
             ELSE DecodeAddress(message, cmdOffset + 4,
                                getUint8(message, cmdOffset + 3),
                                getUint16(message, cmdOffset + 1), env)

\* lines 116-134: addons length, addons, command, port, address type; entered
\* with offset 17, just after the secret
ParseRequest(message, env) ==
    IF ~InRange(message, 1 + SecretLen, 1) THEN RangeError
    ELSE LET addonsLength == getUint8(message, 1 + SecretLen)
             cmdOffset == 1 + SecretLen + 1 + addonsLength
         IN  IF ~InRange(message, cmdOffset, 1) THEN RangeError
             ELSE IF getUint8(message, cmdOffset) # 1
                  THEN Thrown("UnsupportedCommand", "Unsupported command: ",
                              getUint8(message, cmdOffset))
             ELSE IF ~InRange(message, cmdOffset + 1, 2) THEN RangeError
             ELSE IF ~InRange(message, cmdOffset + 3, 1) THEN RangeError
             ELSE DecodeAddress(message, cmdOffset + 4,
                                getUint8(message, cmdOffset + 3),
                                getUint16(message, cmdOffset + 1), env)

\* the secret check left out
SecretUnchecked(message, env) == TRUE

\* lines 108-114: the secret check
SecretMatches(message, env) ==
    compareArrays(Uint8Slice(message, 1, SecretLen), uuidToBytes(env.UUID))

\* the secret read and compared before the version is looked at
ParseVlessHeaderSecretFirst(message, env) ==
    IF ~InRange(message, 0, 1) THEN RangeError
    ELSE IF ~InRange(message, 1, SecretLen) THEN RangeError
    ELSE IF ~SecretMatches(message, env)
         THEN Thrown("InvalidSecret", "Invalid UUID", 0)
    ELSE IF getUint8(message, 0) # 0
         THEN Thrown("UnsupportedVersion", "Unsupported VLESS version: ",
                     getUint8(message, 0))
    ELSE ParseRequest(message, env)

\* lines 98-167: version, secret, then the request
ParseVlessHeader(message, env) ==
    IF ~InRange(message, 0, 1) THEN RangeError
    ELSE IF getUint8(message, 0) # 0
         THEN Thrown("UnsupportedVersion", "Unsupported VLESS version: ",
                     getUint8(message, 0))
    ELSE IF ~InRange(message, 1, SecretLen) THEN RangeError
    ELSE IF ~SecretMatches(message, env)
         THEN Thrown("InvalidSecret", "Invalid UUID", 0)
    ELSE ParseRequest(message, env)

\* the whole frame, header included, taken as the initial payload
InitialPayloadWholeFrame(message, offset) == message

\* line 167: new Uint8Array(message, offset), the bytes after the header
InitialPayload(message, offset) == SubSeq(message, offset + 1, Len(message))

----------------------------------------------------------------------------
(* Configuration and inputs.                                               *)

\* the secret the deployment is configured with, as its 16 bytes
ConfiguredSecret ==
    <<161, 178, 195, 212, 229, 246, 7, 24, 41, 58, 75, 92, 109, 126, 143, 144>>

RECURSIVE HexText(_)
HexText(bytes) ==
    IF bytes = <<>> THEN <<>>
    ELSE HexByteText(Head(bytes)) \o HexText(Tail(bytes))

\* the 8-4-4-4-12 text of a UUID, as wrangler.toml holds it
UuidText(bytes) ==
    HexText(SubSeq(bytes, 1, 4)) \o <<45>> \o HexText(SubSeq(bytes, 5, 6)) \o <<45>>
    \o HexText(SubSeq(bytes, 7, 8)) \o <<45>> \o HexText(SubSeq(bytes, 9, 10)) \o <<45>>
    \o HexText(SubSeq(bytes, 11, 16))

\* the path the tunnel is served at in the deployments checked
TunnelPath == "/vless"

\* "p.io", an operator-chosen egress host
PinnedHost == <<112, 46, 105, 111>>

\* the deployments checked: PROXY_HOST unset ('' is falsy) or set
Envs ==
    {[UUID |-> UuidText(ConfiguredSecret), PROXY_HOST |-> p, VLESS_PATH |-> TunnelPath] :
        p \in {<<>>, PinnedHost}}

\* a first frame laid out as section 6 of the design describes it
Header(version, secret, addons, command, port, addressType, address) ==
    <<version>> \o secret \o <<Len(addons)>> \o addons \o <<command>>
    \o <<port \div 256, port % 256>> \o <<addressType>> \o address

\* 1.2.3.4:80 with the two payload bytes 7 8
FrameV4 ==
    Header(0, ConfiguredSecret, <<>>, 1, 80, 1, <<1, 2, 3, 4>>) \o <<7, 8>>

\* a.b:443 with one addons byte and the payload byte 5
FrameDomain ==
    Header(0, ConfiguredSecret, <<9>>, 1, 443, 2, <<3, 97, 46, 98>>) \o <<5>>

\* the secret field of FrameV4 with the byte at index k changed
CorruptSecret(k) ==
    [FrameV4 EXCEPT ![1 + k] = (@ + 1) % 256]

\* what a client sends on an established tunnel: bytes that are no header
FrameRaw == <<71, 69, 84>>

FrameBadCommand ==
    Header(0, ConfiguredSecret, <<>>, 2, 80, 1, <<1, 2, 3, 4>>)

FrameBadKind ==
    Header(0, ConfiguredSecret, <<>>, 1, 80, 4, <<1, 2, 3, 4>>)

\* version 0 and then nothing
FrameShort == <<0>>

\* the frames a client sends in the relay's specification: an accepted header
\* and one frame for each way a header is refused
RelayFrames ==
    {FrameV4, CorruptSecret(SecretLen), FrameRaw, FrameBadCommand, FrameBadKind,
     FrameShort}

\* [::1]:8080 with no payload
FrameV6 ==
    Header(0, ConfiguredSecret, <<>>, 1, 8080, 3,
           <<0, 0, 0, 0, 0, 0, 0, 0, 0, 0, 0, 0, 0, 0, 0, 1>>)

\* 192.168.0.10:80
FrameV4Private ==
    Header(0, ConfiguredSecret, <<>>, 1, 80, 1, <<192, 168, 0, 10>>)

\* [2001:db8::abcd]:443
FrameV6Doc ==
    Header(0, ConfiguredSecret, <<>>, 1, 443, 3,
           <<32, 1, 13, 184, 0, 0, 0, 0, 0, 0, 0, 0, 0, 0, 171, 205>>)

\* a domain of two bytes, 'a' and FF, the second no UTF-8 at all
FrameDomainHigh ==
    Header(0, ConfiguredSecret, <<>>, 1, 80, 2, <<2, 97, 255>>)

\* a domain of length 0, followed by the payload byte 6
FrameDomainEmpty ==
    Header(0, ConfiguredSecret, <<>>, 1, 80, 2, <<0>>) \o <<6>>

Prefixes(frame) == {SubSeq(frame, 1, n) : n \in 0..(Len(frame) - 1)}

\* the first frames of the header specification: the accepted headers of the
\* three address kinds, every single-byte corruption of the secret, a secret
\* wrong in every byte, other versions, commands and address kinds (alone
\* and together, the frame ending with the offending byte or not), and every
\* frame that ends early
HeaderFrames ==
    {FrameV4, FrameDomain, FrameV6, FrameRaw, FrameBadCommand, FrameBadKind}
    \cup {FrameV4Private, FrameV6Doc, FrameDomainHigh, FrameDomainEmpty}
    \cup {CorruptSecret(k) : k \in 1..SecretLen}
    \cup {Header(0, [k \in 1..SecretLen |-> 0], <<>>, 1, 80, 1, <<1, 2, 3, 4>>),
          Header(1, ConfiguredSecret, <<>>, 1, 80, 1, <<1, 2, 3, 4>>),
          Header(1, [k \in 1..SecretLen |-> 0], <<>>, 1, 80, 1, <<1, 2, 3, 4>>),
          Header(0, ConfiguredSecret, <<>>, 3, 80, 0, <<1, 2, 3, 4>>),
          Header(0, ConfiguredSecret, <<9, 9>>, 1, 80, 0, <<>>),
          Header(0, ConfiguredSecret, <<>>, 0, 80, 1, <<1, 2, 3, 4>>),
          Header(0, ConfiguredSecret, <<9>>, 255, 80, 255, <<>>),
          Header(0, ConfiguredSecret, <<>>, 1, 80, 255, <<1, 2, 3, 4>>),
          Header(0, [k \in 1..SecretLen |-> 0], <<>>, 2, 80, 4, <<>>),
          SubSeq(FrameBadCommand, 1, 19),
          <<1>>, <<255, 161, 178>>}
    \cup Prefixes(FrameV4) \cup Prefixes(FrameDomain) \cup Prefixes(FrameV6)

\* "websocket"
WebSocketText == <<119, 101, 98, 115, 111, 99, 107, 101, 116>>

\* String.prototype.toLowerCase on ASCII text
ToLowerCase(s) ==
    [k \in 1..Len(s) |-> IF s[k] >= 65 /\ s[k] <= 90 THEN s[k] + 32 ELSE s[k]]

\* request.headers.get('Upgrade'): null when the header is absent
NoHeader == [present |-> FALSE, value |-> <<>>]
HeaderValue(text) == [present |-> TRUE, value |-> text]

\* the Upgrade headers of the requests checked: none, '', "websocket",
\* "WebSocket", "h2c" and "websockets"
UpgradeHeaders ==
    {NoHeader, HeaderValue(<<>>), HeaderValue(WebSocketText),
     HeaderValue(<<87, 101, 98, 83, 111, 99, 107, 101, 116>>),
     HeaderValue(<<104, 50, 99>>),
     HeaderValue(WebSocketText \o <<115>>)}

----------------------------------------------------------------------------
(* State.                                                                  *)

VARIABLES
    env,            \* the Env the worker runs with
    pathname,       \* url.pathname of the request
    handler,        \* the function fetch handed the request to, none before
    call,           \* a utility function's call: its arguments and what it returned
    session,        \* the upgraded connection the variables below belong to
    parked,         \* the other upgraded connection's state, kept aside
    request,        \* the Upgrade header of the request on the tunnel path
    response,       \* the status handleVless answered with, 0 before it has
    msgs,           \* the inbound messages dispatched so far, in order
    client,         \* the client side of the WebSocket: none, open, closed, errored
    serverClose,    \* the first server.close(code, reason) call, if any
    parserCalls,    \* the message numbers handed to processVlessHeader
    connects,       \* the connect({hostname, port}) calls, in order
    pc,             \* per message: where its async listener stands
    locals,         \* per message: processVlessHeader's port and data across its awaits
    thrown,         \* per message: what its listener caught
    out,            \* per message: the writable side of its outbound socket
    written,        \* per message: the chunks written to its outbound socket
    source,         \* per message: the ReadableStream its listener created
    queue,          \* per message: the message numbers enqueued and not yet piped
    remoteEof,      \* per message: the remote end has finished sending
    remoteReadable, \* per message: chunks readable on its outbound socket
    toClient,       \* the frames the relay sent to the client
    remoteEvents    \* remote-side events so far

vars ==
    <<env, pathname, handler, call, session, parked, request, response, msgs, client, serverClose, parserCalls, connects, pc, locals, thrown,
      out, written, source, queue, remoteEof, remoteReadable, toClient,
      remoteEvents>>

Handlers == 1..Len(msgs)

NoError == [err |-> "", text |-> "", arg |-> 0]
Caught(kind, text, arg) == [err |-> kind, text |-> text, arg |-> arg]

NotClosed == [called |-> FALSE, code |-> 0, reason |-> "", arg |-> 0, frame |-> 0]

\* the catch closing only for errors of the header, not for a failed connect
CloseOnHeaderError(sc, i, e) ==
    IF sc.called \/ e.err = "UpstreamConnectFailed" THEN sc
    ELSE [called |-> TRUE, code |-> ErrorCloseCode, reason |-> e.text,
          arg |-> e.arg, frame |-> i]

\* lines 69-74: the listener's catch: server.close(1011, e.message); a close
\* of a WebSocket that is already closing changes nothing
CloseOnError(sc, i, e) ==
    IF sc.called THEN sc
    ELSE [called |-> TRUE, code |-> ErrorCloseCode, reason |-> e.text,
          arg |-> e.arg, frame |-> i]

\* no utility function has been called
NoCall == [fn |-> "none"]

\* What one call of handleVless owns, once it has answered 101: the objects
\* of lines 47-88 and of the listeners' closures, nothing of them at module
\* level
Upgraded ==
    [request |-> [present |-> TRUE, value |-> WebSocketText],
     response |-> SwitchingProtocols, msgs |-> <<>>, client |-> "open",
     serverClose |-> NotClosed, parserCalls |-> <<>>, connects |-> <<>>,
     pc |-> <<>>, locals |-> <<>>, thrown |-> <<>>, out |-> <<>>,
     written |-> <<>>, source |-> <<>>, queue |-> <<>>, remoteEof |-> <<>>,
     remoteReadable |-> <<>>, toClient |-> <<>>, remoteEvents |-> 0]

\* The state handleVless leaves when it answers 101 to a request that asks
\* for the upgrade: the pair exists, the server side is accepted and the
\* listeners of lines 51, 77 and 81 are registered
Init ==
    /\ env \in Envs
    /\ pathname = env.VLESS_PATH
    /\ handler = "handleVless"
    /\ call = NoCall
    /\ session = 1
    /\ parked = Upgraded
    /\ request = [present |-> TRUE, value |-> WebSocketText]
    /\ response = SwitchingProtocols
    /\ msgs = <<>>
    /\ client = "open"
    /\ serverClose = NotClosed
    /\ parserCalls = <<>>
    /\ connects = <<>>
    /\ pc = <<>>
    /\ locals = <<>>
    /\ thrown = <<>>
    /\ out = <<>>
    /\ written = <<>>
    /\ source = <<>>
    /\ queue = <<>>
    /\ remoteEof = <<>>
    /\ remoteReadable = <<>>
    /\ toClient = <<>>
    /\ remoteEvents = 0

----------------------------------------------------------------------------
(* Actions.  Every inbound message runs the listener of line 51 from its   *)
(* start; the listener is asynchronous, so its run is cut at its awaits:   *)
(* connect (line 170), writer.write (line 174) and pipeTo (line 67).       *)

\* the gate left out: every request is upgraded
IsUpgradeRequestAlways(h) == TRUE

\* lines 41-42: the header is there, not empty, and "websocket" in lower case
IsUpgradeRequest(h) ==
    h.present /\ h.value # <<>> /\ ToLowerCase(h.value) = WebSocketText

\* lines 40-50 and 77-88: handleVless answers the request: 426 when it does
\* not ask for the upgrade; otherwise the WebSocket pair is created, the
\* server side accepted, the listeners registered, and the answer is 101
HandleVless ==
    /\ handler = "handleVless"
    /\ response = 0
    /\ IF IsUpgradeRequest(request)
       THEN response' = SwitchingProtocols /\ client' = "open"
       ELSE response' = UpgradeRequired /\ client' = "none"
    /\ UNCHANGED <<env, pathname, handler, call, session, parked, request, msgs, serverClose, parserCalls, connects, pc, locals,
                   thrown, out, written, source, queue, remoteEof, remoteReadable,
                   toClient, remoteEvents>>

Chunk(i, part, bytes) == [frame |-> i, part |-> part, bytes |-> bytes]

\* line 60: controller.enqueue(e.data) on every stream still readable
Enqueue(q, src, i) ==
    [j \in 1..Len(q) |-> IF src[j] = "readable" THEN Append(q[j], i) ELSE q[j]]

\* A 'message' event with the binary data f.  The listener of line 51 runs
\* processVlessHeader to its first await: the header is parsed and, if it is
\* accepted, connect is called; a throw is caught at line 69.  The listeners
\* added at line 60 by earlier runs enqueue the same data.
Message(f) ==
    LET i == Len(msgs) + 1
        r == ParseVlessHeader(f, env)
    IN  /\ client = "open"
        /\ Len(msgs) < MaxFrames
        /\ msgs' = Append(msgs, f)
        /\ parserCalls' = Append(parserCalls, i)
        /\ queue' = Append(Enqueue(queue, source, i), <<>>)
        /\ out' = Append(out, "none")
        /\ written' = Append(written, <<>>)
        /\ source' = Append(source, "none")
        /\ remoteEof' = Append(remoteEof, FALSE)
        /\ remoteReadable' = Append(remoteReadable, 0)
        /\ locals' = Append(locals,
                [port |-> r.port, data |-> InitialPayload(f, r.offset)])
        /\ IF r.err = ""
           THEN /\ pc' = Append(pc, "connecting")
                /\ thrown' = Append(thrown, NoError)
                /\ connects' = Append(connects,
                        [frame |-> i, hostname |-> r.host, port |-> r.port])
                /\ UNCHANGED serverClose
           ELSE /\ pc' = Append(pc, "failed")
                /\ thrown' = Append(thrown, Caught(r.err, r.text, r.arg))
                /\ serverClose' = CloseOnError(serverClose, i, r)
                /\ UNCHANGED connects
        /\ UNCHANGED <<env, pathname, handler, call, session, parked, request, response, client, toClient, remoteEvents>>

\* line 220: the fetch of connect resolves; line 174 starts the write of the
\* bytes that followed the header
ConnectOk(i) ==
    /\ pc[i] = "connecting"
    /\ pc' = [pc EXCEPT ![i] = "writing"]
    /\ out' = [out EXCEPT ![i] = "open"]
    /\ UNCHANGED <<env, pathname, handler, call, session, parked, request, response, locals, msgs, client, serverClose, parserCalls, connects, thrown,
                   written, source, queue, remoteEof, remoteReadable, toClient,
                   remoteEvents>>

\* lines 222-224: the fetch of connect rejects; caught at line 69
ConnectFail(i) ==
    LET e == Caught("UpstreamConnectFailed", "Failed to connect to ", locals[i].port)
    IN  /\ pc[i] = "connecting"
        /\ pc' = [pc EXCEPT ![i] = "failed"]
        /\ thrown' = [thrown EXCEPT ![i] = e]
        /\ serverClose' = CloseOnError(serverClose, i, e)
        /\ UNCHANGED <<env, pathname, handler, call, session, parked, request, response, locals, msgs, client, parserCalls, connects, out, written,
                       source, queue, remoteEof, remoteReadable, toClient,
                       remoteEvents>>

\* the write of line 174 not awaited and lost: the stream is piped at once
WriteSkipped(i) ==
    /\ pc[i] = "writing"
    /\ out[i] = "open"
    /\ source' = [source EXCEPT ![i] = "readable"]
    /\ pc' = [pc EXCEPT ![i] = "piping"]
    /\ UNCHANGED <<env, pathname, handler, call, session, parked, request, response, locals, msgs, client, serverClose, parserCalls, connects, thrown,
                   out, written, queue, remoteEof, remoteReadable, toClient,
                   remoteEvents>>

\* lines 174-178 and 58-67: the write of the initial payload completes, the
\* writer is released, the ReadableStream is created (its start adds the three
\* listeners) and pipeTo begins
WriteDone(i) ==
    /\ pc[i] = "writing"
    /\ out[i] = "open"
    /\ written' = [written EXCEPT ![i] = <<Chunk(i, "initial", locals[i].data)>>]
    /\ source' = [source EXCEPT ![i] = "readable"]
    /\ pc' = [pc EXCEPT ![i] = "piping"]
    /\ UNCHANGED <<env, pathname, handler, call, session, parked, request, response, locals, msgs, client, serverClose, parserCalls, connects, thrown,
                   out, queue, remoteEof, remoteReadable, toClient, remoteEvents>>

\* line 67: pipeTo moves the oldest enqueued chunk to the outbound socket
PipeWrite(i) ==
    /\ pc[i] = "piping"
    /\ out[i] = "open"
    /\ queue[i] # <<>>
    /\ written' = [written EXCEPT ![i] =
            Append(@, Chunk(Head(queue[i]), "frame", msgs[Head(queue[i])]))]
    /\ queue' = [queue EXCEPT ![i] = Tail(@)]
    /\ UNCHANGED <<env, pathname, handler, call, session, parked, request, response, locals, msgs, client, serverClose, parserCalls, connects, pc,
                   thrown, out, source, remoteEof, remoteReadable, toClient,
                   remoteEvents>>

\* line 67: the stream was closed and is drained: pipeTo closes the writable
\* side of the outbound socket and resolves; the listener returns
PipeClose(i) ==
    /\ pc[i] = "piping"
    /\ source[i] = "closing"
    /\ queue[i] = <<>>
    /\ source' = [source EXCEPT ![i] = "closed"]
    /\ out' = [out EXCEPT ![i] = "closed"]
    /\ pc' = [pc EXCEPT ![i] = "done"]
    /\ UNCHANGED <<env, pathname, handler, call, session, parked, request, response, locals, msgs, client, serverClose, parserCalls, connects, thrown,
                   written, queue, remoteEof, remoteReadable, toClient,
                   remoteEvents>>

\* a close handler that closes the streams of every connection, as it would
\* with the stream controllers kept in a list at module level
ClientCloseShared ==
    /\ client = "open"
    /\ client' = "closed"
    /\ source' = [j \in 1..Len(source) |->
                    IF source[j] = "readable" THEN "closing" ELSE source[j]]
    /\ parked' = [parked EXCEPT !.source =
                    [j \in 1..Len(parked.source) |->
                        IF parked.source[j] = "readable" THEN "closing"
                        ELSE parked.source[j]]]
    /\ UNCHANGED <<env, pathname, handler, call, session, request, response, locals, msgs,
                   serverClose,
                   parserCalls, connects, pc, thrown, out, written, queue,
                   remoteEof, remoteReadable, toClient, remoteEvents>>

\* A 'close' event: line 61 closes every stream that exists (line 77 logs)
ClientClose ==
    /\ client = "open"
    /\ client' = "closed"
    /\ source' = [j \in 1..Len(source) |->
                    IF source[j] = "readable" THEN "closing" ELSE source[j]]
    /\ UNCHANGED <<env, pathname, handler, call, session, parked, request, response, locals, msgs, serverClose, parserCalls, connects, pc, thrown, out,
                   written, queue, remoteEof, remoteReadable, toClient,
                   remoteEvents>>

PipingAt(j) == j \in 1..Len(pc) /\ pc[j] = "piping" /\ source[j] = "readable"

\* An 'error' event: line 62 errors every stream that exists; pipeTo drops
\* what was queued, aborts the outbound writable and rejects; caught at
\* line 69 (line 81 logs)
ClientError ==
    LET e == Caught("PipeFailed", "client error", 0)
        hit == {j \in 1..Len(pc) : PipingAt(j)}
        first == CHOOSE j \in hit : \A k \in hit : j <= k
    IN  /\ client = "open"
        /\ client' = "errored"
        /\ source' = [j \in 1..Len(source) |->
                        IF j \in hit THEN "errored" ELSE source[j]]
        /\ queue' = [j \in 1..Len(queue) |-> IF j \in hit THEN <<>> ELSE queue[j]]
        /\ out' = [j \in 1..Len(out) |-> IF j \in hit THEN "aborted" ELSE out[j]]
        /\ pc' = [j \in 1..Len(pc) |-> IF j \in hit THEN "failed" ELSE pc[j]]
        /\ thrown' = [j \in 1..Len(thrown) |-> IF j \in hit THEN e ELSE thrown[j]]
        /\ serverClose' = IF hit = {} THEN serverClose
                          ELSE CloseOnError(serverClose, first, e)
        /\ UNCHANGED <<env, pathname, handler, call, session, parked, request, response, locals, msgs, parserCalls, connects, written, remoteEof,
                       remoteReadable, toClient, remoteEvents>>

\* The remote end sends a chunk: it becomes readable on remoteSocket.readable,
\* which no line of the source reads
RemoteData(i) ==
    /\ out[i] = "open"
    /\ ~remoteEof[i]
    /\ remoteEvents < MaxRemoteEvents
    /\ remoteReadable' = [remoteReadable EXCEPT ![i] = @ + 1]
    /\ remoteEvents' = remoteEvents + 1
    /\ UNCHANGED <<env, pathname, handler, call, session, parked, request, response, locals, msgs, client, serverClose, parserCalls, connects, pc,
                   thrown, out, written, source, queue, remoteEof, toClient>>

\* The remote end finishes sending: remoteSocket.readable reaches its end
RemoteEOF(i) ==
    /\ out[i] = "open"
    /\ ~remoteEof[i]
    /\ remoteEvents < MaxRemoteEvents
    /\ remoteEof' = [remoteEof EXCEPT ![i] = TRUE]
    /\ remoteEvents' = remoteEvents + 1
    /\ UNCHANGED <<env, pathname, handler, call, session, parked, request, response, locals, msgs, client, serverClose, parserCalls, connects, pc,
                   thrown, out, written, source, queue, remoteReadable, toClient>>

\* The outbound socket fails: its writable side errors.  A pending write of
\* line 174 rejects; a running pipeTo cancels its stream and rejects; either
\* way the listener's catch of line 69 runs
RemoteError(i) ==
    LET e == Caught(IF pc[i] = "writing" THEN "WriteFailed" ELSE "PipeFailed",
                    "socket error", 0)
    IN  /\ out[i] = "open"
        /\ remoteEvents < MaxRemoteEvents
        /\ remoteEvents' = remoteEvents + 1
        /\ out' = [out EXCEPT ![i] = "errored"]
        /\ pc' = [pc EXCEPT ![i] = "failed"]
        /\ thrown' = [thrown EXCEPT ![i] = e]
        /\ source' = [source EXCEPT ![i] = IF @ = "none" THEN @ ELSE "cancelled"]
        /\ queue' = [queue EXCEPT ![i] = <<>>]
        /\ serverClose' = CloseOnError(serverClose, i, e)
        /\ UNCHANGED <<env, pathname, handler, call, session, parked, request, response, locals, msgs, client, parserCalls, connects, written,
                       remoteEof, remoteReadable, toClient>>

Next ==
    \/ \E f \in RelayFrames : Message(f)
    \/ \E i \in Handlers : ConnectOk(i)
    \/ \E i \in Handlers : ConnectFail(i)
    \/ \E i \in Handlers : WriteDone(i)
    \/ \E i \in Handlers : PipeWrite(i)
    \/ \E i \in Handlers : PipeClose(i)
    \/ ClientClose
    \/ ClientError
    \/ \E i \in Handlers : RemoteData(i)
    \/ \E i \in Handlers : RemoteEOF(i)
    \/ \E i \in Handlers : RemoteError(i)

Spec == Init /\ [][Next]_vars

\* the state of the upgraded connection the variables describe
Connection ==
    [request |-> request, response |-> response, msgs |-> msgs, client |-> client,
     serverClose |-> serverClose, parserCalls |-> parserCalls,
     connects |-> connects, pc |-> pc, locals |-> locals, thrown |-> thrown,
     out |-> out, written |-> written, source |-> source, queue |-> queue,
     remoteEof |-> remoteEof, remoteReadable |-> remoteReadable,
     toClient |-> toClient, remoteEvents |-> remoteEvents]

\* The worker turns from one upgraded connection to the other: the next
\* event it handles is the other connection's.  Nothing of either changes.
SwitchSession ==
    /\ session' = 3 - session
    /\ parked' = Connection
    /\ request' = parked.request
    /\ response' = parked.response
    /\ msgs' = parked.msgs
    /\ client' = parked.client
    /\ serverClose' = parked.serverClose
    /\ parserCalls' = parked.parserCalls
    /\ connects' = parked.connects
    /\ pc' = parked.pc
    /\ locals' = parked.locals
    /\ thrown' = parked.thrown
    /\ out' = parked.out
    /\ written' = parked.written
    /\ source' = parked.source
    /\ queue' = parked.queue
    /\ remoteEof' = parked.remoteEof
    /\ remoteReadable' = parked.remoteReadable
    /\ toClient' = parked.toClient
    /\ remoteEvents' = parked.remoteEvents
    /\ UNCHANGED <<env, pathname, handler, call>>

\* what the client of each of the two connections sends: the first an IPv4
\* header and raw bytes, the second a domain header and a short frame
PairFrames(k) ==
    IF k = 1 THEN {FrameV4, FrameRaw} ELSE {FrameDomain, FrameShort}

\* Two upgraded connections served by the same worker, their events
\* interleaved; the bounds on messages and remote events cover both.  Of the
\* remote end only the failure of a socket is here: for data and EOF on
\* remoteSocket.readable the worker runs no code
PairNext ==
    \/ /\ Len(msgs) + Len(parked.msgs) < MaxFrames
       /\ \E f \in PairFrames(session) : Message(f)
    \/ \E i \in Handlers : ConnectOk(i)
    \/ \E i \in Handlers : ConnectFail(i)
    \/ \E i \in Handlers : WriteDone(i)
    \/ \E i \in Handlers : PipeWrite(i)
    \/ \E i \in Handlers : PipeClose(i)
    \/ ClientClose
    \/ ClientError
    \/ /\ remoteEvents + parked.remoteEvents < MaxRemoteEvents
       /\ \E i \in Handlers : RemoteError(i)
    \/ SwitchSession

PairSpec == Init /\ [][PairNext]_vars

\* the deployments of the routing specification: the tunnel at its own path,
\* or at the root path
RouteEnvs ==
    {[UUID |-> UuidText(ConfiguredSecret), PROXY_HOST |-> <<>>, VLESS_PATH |-> p] :
        p \in {TunnelPath, "/"}}

\* the paths requested: the root, the tunnel path, and two that are neither
Paths == {"/", TunnelPath, "/vless/", "/other"}

\* the status of the configuration page: a Response with no status given
ConfigPageStatus == 200

\* what the fallback host may answer
FallbackStatuses == {200, 404}

\* the tunnel path matched as a prefix of the request's path
RoutePrefix(path, e) ==
    IF path = e.VLESS_PATH \/ (path = "/vless/" /\ e.VLESS_PATH = TunnelPath)
    THEN "handleVless"
    ELSE IF path = "/" THEN "handleConfigRequest"
    ELSE "handleFallback"

\* lines 16-25: the route of a request
Route(path, e) ==
    IF path = e.VLESS_PATH THEN "handleVless"
    ELSE IF path = "/" THEN "handleConfigRequest"
    ELSE "handleFallback"

\* lines 350-356, the worker before it had a configuration page: the tunnel
\* path or the fallback
RouteEarlier(path, e) ==
    IF path = e.VLESS_PATH THEN "handleVless" ELSE "handleFallback"

\* fetch hands the request to h and returns what h answers: handleVless as
\* in HandleVless, handleConfigRequest the page, handleFallback what the
\* fallback host answers
FetchAs(h) ==
    /\ handler = "none"
    /\ handler' = h
    /\ CASE h = "handleVless" ->
              IF IsUpgradeRequest(request)
              THEN response' = SwitchingProtocols /\ client' = "open"
              ELSE response' = UpgradeRequired /\ client' = "none"
         [] h = "handleConfigRequest" ->
              response' = ConfigPageStatus /\ client' = "none"
         [] OTHER ->
              response' \in FallbackStatuses /\ client' = "none"
    /\ UNCHANGED <<env, pathname, call, session, parked, request, msgs, serverClose,
                   parserCalls, connects, pc, locals, thrown, out, written, source,
                   queue, remoteEof, remoteReadable, toClient, remoteEvents>>

\* lines 11-31: fetch
Fetch == FetchAs(Route(pathname, env))

\* lines 345-362: fetch of the earlier worker
FetchEarlier == FetchAs(RouteEarlier(pathname, env))

\* the sequences over S of length up to n
BoundedSeq(S, n) == UNION {[1..k -> S] : k \in 0..n}

ZeroSecret == [k \in 1..SecretLen |-> 0]

\* the arrays compareArrays is called with: short ones over three byte
\* values, the configured secret, the secret one byte shorter and one byte
\* longer, the secret with its last byte changed, and sixteen zeros
Arrays ==
    BoundedSeq({0, 1, 255}, MaxLen)
    \cup {ConfiguredSecret, SubSeq(ConfiguredSecret, 1, SecretLen - 1),
          ConfiguredSecret \o <<0>>, SubSeq(CorruptSecret(SecretLen), 2, 1 + SecretLen),
          ZeroSecret}

\* lines 248-258 called with a and b
CompareArrays(a, b) ==
    /\ call = NoCall
    /\ call' = [fn |-> "compareArrays", a |-> a, b |-> b, result |-> compareArrays(a, b)]
    /\ UNCHANGED <<env, pathname, handler, session, parked, request, response, msgs,
                   client, serverClose, parserCalls, connects, pc, locals, thrown,
                   out, written, source, queue, remoteEof, remoteReadable, toClient,
                   remoteEvents>>

ToUpperCase(s) ==
    [k \in 1..Len(s) |-> IF s[k] >= 97 /\ s[k] <= 122 THEN s[k] - 32 ELSE s[k]]

\* the values env.UUID is configured with: the short texts over '1', 'F',
\* 'g', '-' and ' ', the UUID in its 8-4-4-4-12 form, in capitals and without
\* dashes, its first 31 hex digits, and the UUID with a 'g' for the first and
\* for the second digit of its first byte
UuidTexts ==
    BoundedSeq({49, 70, 103, 45, 32}, MaxLen)
    \cup {UuidText(ConfiguredSecret), ToUpperCase(UuidText(ConfiguredSecret)),
          HexText(ConfiguredSecret),
          SubSeq(HexText(ConfiguredSecret), 1, 2 * SecretLen - 1),
          [UuidText(ConfiguredSecret) EXCEPT ![1] = 103],
          [UuidText(ConfiguredSecret) EXCEPT ![2] = 103]}

\* the secrets a client presents: the design's, sixteen zeros, and zeros
\* after a first byte
Secrets ==
    {ConfiguredSecret, ZeroSecret}
    \cup {[k \in 1..SecretLen |-> IF k = 1 THEN v ELSE 0] : v \in {1, 15, 16, 241, 255}}

\* lines 233-240 called with uuid, and lines 108-114 run on a first frame
\* that carries each of the secrets by a worker configured with uuid
UuidToBytes(uuid) ==
    /\ call = NoCall
    /\ call' = [fn |-> "uuidToBytes", uuid |-> uuid, result |-> uuidToBytes(uuid),
                accepted |->
                    {s \in Secrets :
                        ParseVlessHeader(Header(0, s, <<>>, 1, 80, 1, <<1, 2, 3, 4>>),
                                         [env EXCEPT !.UUID = uuid]).err = ""}]
    /\ UNCHANGED <<env, pathname, handler, session, parked, request, response, msgs,
                   client, serverClose, parserCalls, connects, pc, locals, thrown,
                   out, written, source, queue, remoteEof, remoteReadable, toClient,
                   remoteEvents>>

\* The utility functions on their own: one call, its arguments drawn from
\* the sets above
UtilInit == Init /\ env.PROXY_HOST = <<>>

UtilNext ==
    \/ \E a \in Arrays, b \in Arrays : CompareArrays(a, b)
    \/ \E uuid \in UuidTexts : UuidToBytes(uuid)

UtilSpec == UtilInit /\ [][UtilNext]_vars

\* The worker from the request's arrival on: nothing is routed yet
RouteInit ==
    /\ env \in RouteEnvs
    /\ pathname \in Paths
    /\ handler = "none"
    /\ call = NoCall
    /\ session = 1
    /\ parked = Upgraded
    /\ request \in {NoHeader, HeaderValue(WebSocketText)}
    /\ response = 0
    /\ msgs = <<>>
    /\ client = "none"
    /\ serverClose = NotClosed
    /\ parserCalls = <<>>
    /\ connects = <<>>
    /\ pc = <<>>
    /\ locals = <<>>
    /\ thrown = <<>>
    /\ out = <<>>
    /\ written = <<>>
    /\ source = <<>>
    /\ queue = <<>>
    /\ remoteEof = <<>>
    /\ remoteReadable = <<>>
    /\ toClient = <<>>
    /\ remoteEvents = 0

RouteNext == Fetch \/ FetchEarlier \/ Next

RouteSpec == RouteInit /\ [][RouteNext]_vars

\* The worker from the request on: handleVless has not answered yet and no
\* WebSocket pair exists
GateInit ==
    /\ env \in Envs
    /\ pathname = env.VLESS_PATH
    /\ handler = "handleVless"
    /\ call = NoCall
    /\ session = 1
    /\ parked = Upgraded
    /\ request \in UpgradeHeaders
    /\ response = 0
    /\ msgs = <<>>
    /\ client = "none"
    /\ serverClose = NotClosed
    /\ parserCalls = <<>>
    /\ connects = <<>>
    /\ pc = <<>>
    /\ locals = <<>>
    /\ thrown = <<>>
    /\ out = <<>>
    /\ written = <<>>
    /\ source = <<>>
    /\ queue = <<>>
    /\ remoteEof = <<>>
    /\ remoteReadable = <<>>
    /\ toClient = <<>>
    /\ remoteEvents = 0

GateNext == HandleVless \/ Next

GateSpec == GateInit /\ [][GateNext]_vars

\* The steps that are neither the client's nor the remote end's to take: a
\* pending connect settles, a pending write completes, pipeTo moves what its
\* stream holds and closes the socket behind a closed stream
RelayStep ==
    \E i \in Handlers :
        ConnectOk(i) \/ ConnectFail(i) \/ WriteDone(i) \/ PipeWrite(i) \/ PipeClose(i)

\* The platform keeps running what is pending: while some such step can be
\* taken, one is.  Nothing is assumed of the client or of the remote end.
FairSpec == Init /\ [][Next]_vars /\ WF_vars(RelayStep)

\* The header specification: one first frame, drawn from HeaderFrames, and
\* the rest of processVlessHeader for it
HeaderNext ==
    \/ msgs = <<>> /\ \E f \in HeaderFrames : Message(f)
    \/ \E i \in Handlers : ConnectOk(i)
    \/ \E i \in Handlers : ConnectFail(i)
    \/ \E i \in Handlers : WriteDone(i)

HeaderSpec == Init /\ [][HeaderNext]_vars

----------------------------------------------------------------------------
(* The wire format of section 6 of the design, stated on its own: what the *)
(* claims below call a valid header.                                       *)

\* the byte at zero-based offset o, or 256 (no byte) past the end
ByteAt(m, o) == IF o < Len(m) THEN m[o + 1] ELSE 256

AddonsLength(m) == ByteAt(m, 17)

AddressKind(m) == ByteAt(m, 21 + AddonsLength(m))

AddressLength(m) ==
    CASE AddressKind(m) = 1 -> 4
      [] AddressKind(m) = 2 -> 1 + ByteAt(m, 22 + AddonsLength(m))
      [] AddressKind(m) = 3 -> 16
      [] OTHER -> 0

SecretField(m) == SubSeq(m, 2, 1 + SecretLen)

Conforms(m) ==
    /\ ByteAt(m, 0) = 0
    /\ Len(m) >= 1 + SecretLen
    /\ SecretField(m) = ConfiguredSecret
    /\ ByteAt(m, 18 + AddonsLength(m)) = 1
    /\ AddressKind(m) \in {1, 2, 3}
    /\ Len(m) >= 22 + AddonsLength(m) + AddressLength(m)

\* the message numbers of the chunks written to outbound socket i, in order
WrittenFrames(i) == [k \in 1..Len(written[i]) |-> written[i][k].frame]

\* the session of message i exists: its connect succeeded and its listener
\* is writing the initial payload or piping
Established(i) == i \in Handlers /\ out[i] = "open" /\ pc[i] \in {"writing", "piping"}

\* ... and both ends are still there: the client has neither closed nor
\* failed, and the relay has not closed the upgraded connection
Active(i) == Established(i) /\ client = "open" /\ ~serverClose.called

----------------------------------------------------------------------------
(* Claims.                                                                 *)

\* C1: on an upgraded connection whose first message was a valid header, only
\* that first message is handed to the header parser, and no later message is
\* refused as a header with the connection closed for it.
C1_OnlyFirstFrameParsed ==
    (Len(msgs) >= 1 /\ Conforms(msgs[1])) =>
        /\ \A k \in 1..Len(parserCalls) : parserCalls[k] = 1
        /\ ~(serverClose.called /\ serverClose.frame > 1
             /\ thrown[serverClose.frame].err \in
                  {"TruncatedHeader", "UnsupportedVersion", "InvalidSecret",
                   "UnsupportedCommand", "InvalidAddressKind"})

\* C2: at most one outbound connection is ever opened on one upgraded
\* connection: connect is called at most once.
C2_AtMostOneConnect == Len(connects) <= 1

\* C3: a frame with version 0 whose 16-byte secret field differs from the
\* configured secret in at least one byte is refused with InvalidSecret, and
\* connect is never called for it.
C3_WrongSecretRefusedBeforeConnect ==
    \A i \in Handlers :
        (/\ ByteAt(msgs[i], 0) = 0
         /\ Len(msgs[i]) >= 1 + SecretLen
         /\ \E k \in 1..SecretLen : SecretField(msgs[i])[k] # ConfiguredSecret[k])
        => /\ pc[i] = "failed"
           /\ thrown[i].err = "InvalidSecret"
           /\ out[i] = "none"
           /\ \A c \in 1..Len(connects) : connects[c].frame # i

\* C3's case: the frame whose secret is wrong in its last byte only was refused
C3_Witness ==
    /\ Len(msgs) = 1
    /\ msgs[1] = CorruptSecret(SecretLen)
    /\ thrown[1].err = "InvalidSecret"

\* C4: nothing is written to an outbound socket, and nothing is sent to the
\* client, unless the header that asked for the socket was valid (version,
\* secret, command, address kind) and the connect for it completed.
C4_NothingRelayedBeforeEstablished ==
    /\ \A i \in Handlers :
          written[i] # <<>> =>
             /\ Conforms(msgs[i])
             /\ out[i] # "none"
             /\ \E c \in 1..Len(connects) : connects[c].frame = i
    /\ toClient # <<>> =>
          \E i \in Handlers : Conforms(msgs[i]) /\ out[i] # "none"

\* C4's case: bytes were written to an outbound socket
C4_Witness ==
    \E i \in Handlers : written[i] # <<>> /\ out[i] = "open"

\* C5: on an outbound socket the initial payload of the header frame is the
\* first chunk written; the frames that arrived later follow it, and none is
\* queued for the socket before that write has completed.
C5_InitialPayloadFirst ==
    \A i \in Handlers :
        /\ written[i] # <<>> =>
              /\ written[i][1].part = "initial"
              /\ written[i][1].frame = i
              /\ \A k \in 2..Len(written[i]) :
                    written[i][k].part = "frame" /\ written[i][k].frame > i
        /\ queue[i] # <<>> => written[i] # <<>>

\* C5's case: a later frame was written after the initial payload
C5_Witness ==
    \E i \in Handlers : Len(written[i]) >= 2

\* C6: once the session of the first frame has ended without the relay
\* having closed it for an error, its outbound socket has received the initial
\* payload and then every later frame, each once and in arrival order,
\* whenever the later frames arrived.
C6_EveryLaterFrameForwarded ==
    (Len(msgs) >= 1 /\ pc[1] = "done" /\ ~serverClose.called) =>
        WrittenFrames(1) = [k \in 1..Len(msgs) |-> k]

\* the chunks of outbound socket i that were sent on to the client
SentToClient(i) == Len(SelectSeq(toClient, LAMBDA c : c.conn = i))

\* C7: while a session is active, every chunk that becomes readable on its
\* outbound socket is eventually sent to the client.
C7_RemoteChunksReachClient ==
    \A i \in 1..MaxFrames :
        (Active(i) /\ remoteReadable[i] > 0)
            ~> (~Active(i) \/ SentToClient(i) >= remoteReadable[i])

\* C8: when the client side of an established session closes or errors (the
\* relay not having closed the connection itself), the relay eventually
\* closes or aborts the outbound socket.
C8_ClientEndClosesOutbound ==
    \A i \in 1..MaxFrames :
        (Established(i) /\ client # "open" /\ ~serverClose.called)
            ~> (i \in Handlers /\ out[i] # "open")

\* C9: when the remote end of an active session finishes sending while the
\* relay waits for the next inbound frame, the relay eventually closes the
\* upgraded connection (unless the client leaves first), whether or not
\* another inbound frame arrives.
C9_RemoteEndClosesInbound ==
    \A i \in 1..MaxFrames :
        (Active(i) /\ pc[i] = "piping" /\ queue[i] = <<>> /\ remoteEof[i])
            ~> (serverClose.called \/ client # "open")

\* C10: every failure after the upgrade (a truncated header, an unsupported
\* version, a wrong secret, an unsupported command, an invalid address kind,
\* a failed connect) leaves the upgraded connection closed by the relay with
\* a close code other than 1000 and a reason.
C10_FailuresCloseAbnormally ==
    \A i \in Handlers :
        (\/ ~Conforms(msgs[i])
         \/ thrown[i].err \in
               {"TruncatedHeader", "UnsupportedVersion", "InvalidSecret",
                "UnsupportedCommand", "InvalidAddressKind", "UpstreamConnectFailed"})
        => /\ pc[i] = "failed"
           /\ serverClose.called
           /\ serverClose.code # 1000
           /\ serverClose.reason # ""

\* C10's case: a connect failed on a connection that no header error had
\* closed before
C10_Witness ==
    \E i \in Handlers :
        /\ thrown[i].err = "UpstreamConnectFailed"
        /\ serverClose.frame = i
        /\ \A j \in Handlers : j # i => thrown[j].err = ""

\* the errors processVlessHeader raises before its first await
HeaderErrors ==
    {"TruncatedHeader", "UnsupportedVersion", "InvalidSecret",
     "UnsupportedCommand", "InvalidAddressKind"}

\* C11: once the header processing of a message has failed, no message that
\* arrives later on the same upgraded connection has connect called for it
\* or has any of its bytes written to an outbound socket.
C11_HeaderErrorIsTerminal ==
    \A k \in Handlers :
        thrown[k].err \in HeaderErrors =>
            \A j \in Handlers :
                j > k =>
                    /\ \A c \in 1..Len(connects) : connects[c].frame # j
                    /\ \A i \in Handlers :
                          \A w \in 1..Len(written[i]) : written[i][w].frame # j

\* the failures that can only happen once the outbound socket is open: the
\* write of the initial payload rejects, or pipeTo rejects
RelayErrors == {"WriteFailed", "PipeFailed"}

\* nothing is pending in the relay: no connect, no write, and every pipe
\* waits on a stream that holds nothing and has not been closed
Quiescent ==
    \A i \in Handlers :
        /\ pc[i] \notin {"connecting", "writing"}
        /\ pc[i] = "piping" => queue[i] = <<>> /\ source[i] = "readable"

\* C12: when the relay has closed the upgraded connection for a failed write
\* of the initial payload or a failed pipe, no outbound socket stays open:
\* once the client is gone too and the relay has nothing left to run, every
\* outbound socket that was opened has been closed or aborted, or has failed.
C12_TeardownClosesOutbound ==
    (/\ serverClose.called
     /\ serverClose.frame \in Handlers
     /\ thrown[serverClose.frame].err \in RelayErrors
     /\ client # "open"
     /\ Quiescent)
    => \A i \in Handlers : out[i] # "open"

\* the port field of a header: two bytes, big-endian, after the command byte
PortField(m) ==
    ByteAt(m, 19 + AddonsLength(m)) * 256 + ByteAt(m, 20 + AddonsLength(m))

\* "1.2.3.4"
TextV4 == <<49, 46, 50, 46, 51, 46, 52>>

\* "a.b"
TextDomain == <<97, 46, 98>>

\* "0000:0000:0000:0000:0000:0000:0000:0001"
TextV6 ==
    <<48, 48, 48, 48, 58, 48, 48, 48, 48, 58, 48, 48, 48, 48, 58, 48, 48, 48, 48, 58,
      48, 48, 48, 48, 58, 48, 48, 48, 48, 58, 48, 48, 48, 48, 58, 48, 48, 48, 49>>

\* the address field of a header: the bytes after the address-kind byte
AddressField(m) ==
    SubSeq(m, 23 + AddonsLength(m), 22 + AddonsLength(m) + AddressLength(m))

\* "192.168.0.10"
TextV4Private == <<49, 57, 50, 46, 49, 54, 56, 46, 48, 46, 49, 48>>

\* "2001:0db8:0000:0000:0000:0000:0000:abcd"
TextV6Doc ==
    <<50, 48, 48, 49, 58, 48, 100, 98, 56, 58, 48, 48, 48, 48, 58, 48, 48, 48, 48, 58,
      48, 48, 48, 48, 58, 48, 48, 48, 48, 58, 48, 48, 48, 48, 58, 97, 98, 99, 100>>

\* 'a' and then U+FFFD, what a UTF-8 decoder makes of the bytes 61 FF
TextDomainHigh == <<97, ReplacementChar>>

\* the host text the design gives for the addresses the accepted headers of
\* the model carry, written out by hand
DesignHost(m) ==
    CASE AddressKind(m) = 1 /\ AddressField(m) = <<1, 2, 3, 4>> -> TextV4
      [] AddressKind(m) = 1 /\ AddressField(m) = <<192, 168, 0, 10>> -> TextV4Private
      [] AddressKind(m) = 2 /\ AddressField(m) = <<3, 97, 46, 98>> -> TextDomain
      [] AddressKind(m) = 2 /\ AddressField(m) = <<2, 97, 255>> -> TextDomainHigh
      [] AddressKind(m) = 3
         /\ AddressField(m) = <<0, 0, 0, 0, 0, 0, 0, 0, 0, 0, 0, 0, 0, 0, 0, 1>> -> TextV6
      [] AddressKind(m) = 3
         /\ AddressField(m) = <<32, 1, 13, 184, 0, 0, 0, 0, 0, 0, 0, 0, 0, 0, 171, 205>>
         -> TextV6Doc
      [] OTHER -> <<>>

\* C13: with an override host configured, connect is called with the
\* override host and the port of the header, whatever the address kind and
\* the address; with none configured, with the decoded host and that port.
C13_DestinationResolution ==
    \A c \in 1..Len(connects) :
        LET m == msgs[connects[c].frame]
        IN  /\ connects[c].port = PortField(m)
            /\ env.PROXY_HOST # <<>> => connects[c].hostname = env.PROXY_HOST
            /\ env.PROXY_HOST = <<>> => connects[c].hostname = DesignHost(m)

\* C13's case: connect was called for a header with a domain address while
\* an override host is configured
C13_Witness ==
    /\ env.PROXY_HOST = PinnedHost
    /\ \E c \in 1..Len(connects) :
          /\ msgs[connects[c].frame] = FrameDomain
          /\ connects[c].hostname = PinnedHost
          /\ connects[c].port = 443

\* a request asks for the upgrade: it has an Upgrade header whose value is
\* "websocket" in any mix of upper and lower case
AsksForWebSocket(h) ==
    /\ h.present
    /\ Len(h.value) = Len(WebSocketText)
    /\ \A k \in 1..Len(WebSocketText) :
          h.value[k] \in {WebSocketText[k], WebSocketText[k] - 32}

\* C14: a request on the tunnel path that does not ask for the websocket
\* upgrade is answered 426 and nothing else happens: no WebSocket pair, no
\* message handled, no connect; a request that asks for it is answered 101.
C14_UpgradeGate ==
    response # 0 =>
        IF AsksForWebSocket(request)
        THEN response = SwitchingProtocols /\ client # "none"
        ELSE /\ response = UpgradeRequired
             /\ client = "none"
             /\ msgs = <<>>
             /\ parserCalls = <<>>
             /\ connects = <<>>

\* C14's case: a request with the Upgrade header "h2c" was answered 426
C14_Witness ==
    /\ request = HeaderValue(<<104, 50, 99>>)
    /\ response = UpgradeRequired

\* C15: a first frame whose version byte is not 0 is refused with
\* UnsupportedVersion, the version it carried reported, whatever follows the
\* version byte: a right secret, a wrong one, or one cut short; the secret
\* is not what decides, and connect is not called.
C15_VersionCheckedFirst ==
    (Len(msgs) >= 1 /\ ByteAt(msgs[1], 0) \in 1..255) =>
        /\ pc[1] = "failed"
        /\ thrown[1].err = "UnsupportedVersion"
        /\ thrown[1].arg = ByteAt(msgs[1], 0)
        /\ connects = <<>>

\* C15's case: a frame of version 255 whose secret field is cut short after
\* two bytes was refused for its version
C15_Witness ==
    /\ Len(msgs) = 1
    /\ msgs[1] = <<255, 161, 178>>
    /\ thrown[1].err = "UnsupportedVersion"

\* where the design says a valid header ends: 22 + N + A
HeaderEnd(m) == 22 + AddonsLength(m) + AddressLength(m)

Truncated(m) ==
    \/ Len(m) = 0
    \/ /\ ByteAt(m, 0) = 0
       /\ Len(m) < 1 + SecretLen
    \/ /\ ByteAt(m, 0) = 0
       /\ Len(m) >= 1 + SecretLen
       /\ SecretField(m) = ConfiguredSecret
       /\ \/ Len(m) < 18
          \/ Len(m) >= 18 /\ Len(m) < 19 + AddonsLength(m)
          \/ /\ Len(m) >= 19 + AddonsLength(m)
             /\ ByteAt(m, 18 + AddonsLength(m)) = 1
             /\ \/ Len(m) < 22 + AddonsLength(m)
                \/ /\ Len(m) >= 22 + AddonsLength(m)
                   /\ AddressKind(m) \in {1, 2, 3}
                   /\ Len(m) < HeaderEnd(m)

\* C17: a first frame that ends before a field the parser needs next is
\* refused as truncated (the read past the end raises; nothing is read from
\* outside the frame), and connect is not called for it.
C17_TruncatedHeaderRefused ==
    \A i \in Handlers :
        Truncated(msgs[i]) =>
            /\ pc[i] = "failed"
            /\ thrown[i].err = "TruncatedHeader"
            /\ out[i] = "none"
            /\ \A c \in 1..Len(connects) : connects[c].frame # i

\* C17's case: the domain header whose length byte says 3 and that holds two
\* bytes of the name was refused as truncated
C17_Witness ==
    /\ Len(msgs) = 1
    /\ msgs[1] = SubSeq(FrameDomain, 1, Len(FrameDomain) - 2)
    /\ AddressKind(msgs[1]) = 2
    /\ Len(msgs[1]) = HeaderEnd(msgs[1]) - 1
    /\ thrown[1].err = "TruncatedHeader"

\* the command byte of a header: it follows the addons
CommandField(m) == ByteAt(m, 18 + AddonsLength(m))

\* version 0 and the configured secret
Authenticated(m) ==
    /\ ByteAt(m, 0) = 0
    /\ Len(m) >= 1 + SecretLen
    /\ SecretField(m) = ConfiguredSecret

\* C18: the first offending field decides the error, in the order version,
\* secret, command, address kind: with version 0 and the right secret, a
\* command byte other than 1 is refused as UnsupportedCommand whatever the
\* address kind is, and with command 1 an address-kind byte outside 1..3 is
\* refused as InvalidAddressKind; a wrong secret is refused as such whatever
\* the command is; connect is called in none of these cases.
C18_FirstOffendingField ==
    \A i \in Handlers :
        LET m == msgs[i]
        IN  /\ (Authenticated(m) /\ CommandField(m) \in (0..255) \ {1}) =>
                  thrown[i].err = "UnsupportedCommand" /\ thrown[i].arg = CommandField(m)
            /\ (Authenticated(m) /\ CommandField(m) = 1
                /\ AddressKind(m) \in (0..255) \ {1, 2, 3}) =>
                  thrown[i].err = "InvalidAddressKind" /\ thrown[i].arg = AddressKind(m)
            /\ (ByteAt(m, 0) = 0 /\ Len(m) >= 1 + SecretLen
                /\ SecretField(m) # ConfiguredSecret) =>
                  thrown[i].err = "InvalidSecret"
            /\ (ByteAt(m, 0) = 0 /\ Len(m) >= 1 + SecretLen
                /\ (SecretField(m) # ConfiguredSecret \/ CommandField(m) \in (0..255) \ {1}
                    \/ (CommandField(m) = 1 /\ AddressKind(m) \in (0..255) \ {1, 2, 3}))) =>
                  /\ pc[i] = "failed"
                  /\ \A c \in 1..Len(connects) : connects[c].frame # i

\* C18's case: a header with command 3 and address kind 0 was refused for
\* its command
C18_Witness ==
    /\ Len(msgs) = 1
    /\ msgs[1] = Header(0, ConfiguredSecret, <<>>, 3, 80, 0, <<1, 2, 3, 4>>)
    /\ thrown[1].err = "UnsupportedCommand"

\* the L bytes of a domain address, taken as they are for the host text
DomainBytes(m) == SubSeq(AddressField(m), 2, Len(AddressField(m)))

\* C19 as stated: an IPv4 address takes 4 bytes and gives their decimal
\* values joined by '.', an IPv6 address takes 16 bytes and gives 8 groups of
\* 4 lowercase hex digits joined by ':', and a domain takes a length byte L
\* and L bytes and gives those L bytes as the host text.
C19_AddressDecoding ==
    env.PROXY_HOST = <<>> =>
        \A c \in 1..Len(connects) :
            LET i == connects[c].frame
                m == msgs[i]
            IN  /\ Len(m) - Len(locals[i].data) = HeaderEnd(m)
                /\ AddressKind(m) \in {1, 3} => connects[c].hostname = DesignHost(m)
                /\ AddressKind(m) = 2 => connects[c].hostname = DomainBytes(m)

\* C19 as amended: the same, but the host text of a domain is the UTF-8
\* decoding of its L bytes: the bytes themselves when they are ASCII, and
\* U+FFFD in place of a byte that is no UTF-8.
C19_AddressDecodingUtf8 ==
    env.PROXY_HOST = <<>> =>
        \A c \in 1..Len(connects) :
            LET i == connects[c].frame
                m == msgs[i]
            IN  /\ Len(m) - Len(locals[i].data) = HeaderEnd(m)
                /\ connects[c].hostname = DesignHost(m)
                /\ (AddressKind(m) = 2 /\ \A k \in 1..Len(DomainBytes(m)) :
                                              DomainBytes(m)[k] < 128)
                   => connects[c].hostname = DomainBytes(m)

\* C19's case: connect was called for the domain of the bytes 61 FF with no
\* override configured
C19_Witness ==
    /\ env.PROXY_HOST = <<>>
    /\ \E c \in 1..Len(connects) :
          /\ msgs[connects[c].frame] = FrameDomainHigh
          /\ connects[c].hostname = TextDomainHigh

\* the state of connection k of the two
ConnState(k) == IF session = k THEN Connection ELSE parked

\* every chunk written to an outbound socket of connection k is made of bytes
\* that arrived on connection k: a whole frame of its own, or the end of the
\* frame that asked for the socket
OwnBytesOnly(k) ==
    LET c == ConnState(k)
    IN  /\ \A j \in 1..Len(c.msgs) : c.msgs[j] \in PairFrames(k)
        /\ \A i \in 1..Len(c.written) :
              \A w \in 1..Len(c.written[i]) :
                  LET chunk == c.written[i][w]
                  IN  /\ chunk.frame \in 1..Len(c.msgs)
                      /\ chunk.part = "frame" => chunk.bytes = c.msgs[chunk.frame]
                      /\ chunk.part = "initial" =>
                            \E n \in 0..Len(c.msgs[i]) :
                                chunk.bytes = SubSeq(c.msgs[i], n + 1, Len(c.msgs[i]))

\* C20: of two upgraded connections served concurrently, every step changes
\* the state of one at most (its outbound sockets, its queues, its open or
\* closed status), leaving the other's as it was, and an outbound socket
\* only ever receives bytes that arrived on its own connection.
C20_SessionsIndependent ==
    /\ [](OwnBytesOnly(1) /\ OwnBytesOnly(2))
    /\ [][ConnState(1)' = ConnState(1) \/ ConnState(2)' = ConnState(2)]_vars

\* C20's case: both connections have an outbound socket that was written to,
\* and the relay has closed one of them while the other is still open
C20_Witness ==
    /\ \E i \in 1..Len(ConnState(1).written) : ConnState(1).written[i] # <<>>
    /\ \E i \in 1..Len(ConnState(2).written) : ConnState(2).written[i] # <<>>
    /\ ConnState(1).client = "closed"
    /\ ConnState(2).client = "open"

\* C21: closed is terminal: once the relay has closed the upgraded
\* connection, it stays closed (no session of it is active again) and no
\* further chunk is written to any of its outbound sockets, whatever the
\* message listeners, the pending connects and writes and the running pipes
\* still do.
C21_ClosedIsTerminal ==
    [][serverClose.called =>
          /\ serverClose'.called
          /\ \A i \in 1..Len(written') :
                written'[i] = IF i <= Len(written) THEN written[i] ELSE <<>>]_vars

\* C22: a request is handed to handleVless exactly when its path is the
\* configured tunnel path; on any other path it is handed to the
\* configuration page, and then the path is the root, or to the fallback
\* proxy, and no WebSocket pair and no outbound connection ever exist.
C22_RequestRouting ==
    handler # "none" =>
        /\ handler = "handleVless" <=> pathname = env.VLESS_PATH
        /\ pathname # env.VLESS_PATH =>
              /\ handler \in {"handleConfigRequest", "handleFallback"}
              /\ handler = "handleConfigRequest" => pathname = "/"
              /\ client = "none"
              /\ msgs = <<>>
              /\ connects = <<>>

\* C22's case: an upgrade request for the tunnel path with a slash added
\* went to the fallback proxy
C22_Witness ==
    /\ pathname = "/vless/"
    /\ env.VLESS_PATH = TunnelPath
    /\ request = HeaderValue(WebSocketText)
    /\ handler = "handleFallback"

\* a is a proper prefix of b
ProperPrefix(a, b) == Len(a) < Len(b) /\ a = SubSeq(b, 1, Len(a))

\* C23: compareArrays(a, b) is exact equality: it returns true exactly when
\* a and b are the same array; for arrays of different length it returns
\* false, and it never accepts a proper prefix either way round.
C23_CompareIsExactEquality ==
    call.fn = "compareArrays" =>
        /\ call.result \in BOOLEAN
        /\ call.result <=> call.a = call.b
        /\ Len(call.a) # Len(call.b) => call.result = FALSE
        /\ (ProperPrefix(call.a, call.b) \/ ProperPrefix(call.b, call.a)) =>
              call.result = FALSE

\* C23's case: the first 15 bytes of the configured secret were compared with
\* the secret
C23_Witness ==
    /\ call.fn = "compareArrays"
    /\ call.a = SubSeq(ConfiguredSecret, 1, SecretLen - 1)
    /\ call.b = ConfiguredSecret
    /\ call.result = FALSE

\* the configured text without its dashes
HexDigitsOf(uuid) == SelectSeq(uuid, LAMBDA c : c # 45)

\* byte i of the secret is read from characters 2i-1 and 2i of hex (counted
\* from 1); Full: both are there and hex digits
PairFull(hex, i) ==
    2 * i <= Len(hex) /\ IsHexChar(hex[2 * i - 1]) /\ IsHexChar(hex[2 * i])

\* C24 as amended: uuidToBytes returns exactly 16 bytes; byte i is the value
\* of hex digits 2i and 2i+1 of the text without dashes when both are hex
\* digits; it is 0 when the pair is missing or begins with a character that
\* is neither a hex digit nor white space nor '+'; and it is the value of the
\* first digit alone when the pair is one hex digit followed by the end of
\* the text or by a character that is no hex digit.  The worker accepts
\* exactly the secret so computed: sixteen zeros for an empty UUID.
C24_UuidBytesParsed ==
    call.fn = "uuidToBytes" =>
        LET hex == HexDigitsOf(call.uuid)
            r == call.result
        IN  /\ DOMAIN r = 1..SecretLen
            /\ \A i \in 1..SecretLen :
                  /\ r[i] \in 0..255
                  /\ PairFull(hex, i) =>
                        r[i] = 16 * HexVal(hex[2 * i - 1]) + HexVal(hex[2 * i])
                  /\ 2 * i - 1 > Len(hex) => r[i] = 0
                  /\ (/\ 2 * i - 1 <= Len(hex)
                      /\ ~IsHexChar(hex[2 * i - 1])
                      /\ ~IsSpace(hex[2 * i - 1])
                      /\ hex[2 * i - 1] # 43) => r[i] = 0
                  /\ (/\ 2 * i - 1 <= Len(hex)
                      /\ IsHexChar(hex[2 * i - 1])
                      /\ ~PairFull(hex, i)) => r[i] = HexVal(hex[2 * i - 1])
            /\ call.uuid \in {UuidText(ConfiguredSecret), HexText(ConfiguredSecret)} =>
                  r = ConfiguredSecret
            /\ call.accepted = {s \in Secrets : s = r}
            /\ call.uuid = <<>> => call.accepted = {ZeroSecret}

\* C24's case: a UUID configured as "1g" gave 1 for the first byte
C24_Witness ==
    /\ call.fn = "uuidToBytes"
    /\ call.uuid = <<49, 103>>
    /\ call.result[1] = 1
    /\ call.accepted # {}

\* C24 as the specification states it: every byte whose pair is incomplete
\* or holds a character that is no hex digit is 0
C24_UuidBytesZeroFilled ==
    call.fn = "uuidToBytes" =>
        LET hex == HexDigitsOf(call.uuid)
            r == call.result
        IN  /\ DOMAIN r = 1..SecretLen
            /\ \A i \in 1..SecretLen :
                  /\ PairFull(hex, i) =>
                        r[i] = 16 * HexVal(hex[2 * i - 1]) + HexVal(hex[2 * i])
                  /\ ~PairFull(hex, i) => r[i] = 0
            /\ call.uuid = <<>> => call.accepted = {ZeroSecret}

====
